---------------------------- MODULE Spec2Model ----------------------------
(***************************************************************************)
(* A model of the Nina entity-component store: the type-erased column      *)
(* (ErasedVec), the entity/component table (EntitiesInner), the World      *)
(* accessors, and Query / QueryEntity.                                     *)
(*                                                                         *)
(* A u128 mask is the set of its set bit positions (a subset of            *)
(* 0..MaskBits-1): & is intersection, | is union, ! is the complement in   *)
(* 0..MaskBits-1, and 1 << n is {n}.                                       *)
(*                                                                         *)
(* A column cell carries the value whose bits were copied into it and the  *)
(* state of those bits: "uninit" (allocated, never written), "zero"        *)
(* (padding), "live" (a value the column owns) or "dropped" (the bits of a *)
(* value whose destructor has already run).                                *)
(***************************************************************************)
EXTENDS Integers, Sequences, FiniteSets, TLC

\* ------------------------------------------------------------------ bounds
MaxEntities == 2
MaxVal == 1
MaxBundle == 2
MaxChain == 2
MaxOps == 3
MaxVecVal == 2
MaxCmds == 2
MaxCap == 3
MaxTypes == 130

\* ------------------------------------------------------- program constants
MaskBits == 128
\* usize::MAX, at the width of the integers the model checker computes with.
UsizeMax == 2147483647

\* ------------------------------------------------------------------- types
\* The component types of the model: a plain type and a heap-owning type.
Types == {"u32", "String"}
\* The element types of a vector used on its own: those and a zero-size type.
VecTypes == Types \cup {"Zst"}
\* TypeInfo::size, in cells.
SizeOf(ty) == IF ty = "Zst" THEN 0 ELSE 1

\* Whether drop_in_place::<T> frees anything (the type owns heap memory).
NeedsDrop(ty) == ty = "String"

Values == 1..MaxVal
VecValues == 1..MaxVecVal
\* The values of a type: a zero-size type has one.
VecValuesOf(ty) == IF SizeOf(ty) = 0 THEN {0} ELSE VecValues
NoEntity == -1

\* ------------------------------------------------------------------- masks
BitAnd(a, b) == a \cap b
BitOr(a, b) == a \cup b
BitNot(a) == (0..(MaskBits - 1)) \ a
\* 1 << n on a u128.
Shl1(n) == {n % MaskBits}

\* -------------------------------------------------------------- ErasedVec
UninitCell == [val |-> 0, st |-> "uninit"]
ZeroCell == [val |-> 0, st |-> "zero"]
LiveCell(v) == [val |-> v, st |-> "live"]
\* The bits of a value of type ty after its destructor ran: for a type
\* without drop glue the destructor does nothing and the bits stay valid.
DroppedCell(ty, v) ==
  [val |-> v, st |-> IF NeedsDrop(ty) THEN "dropped" ELSE "live"]

\* RawErasedVec::new_erased: capacity 0 whatever the size of the type.
ErasedVecNewErased(ty) ==
  [ty |-> ty, len |-> 0, cap |-> 0, filled |-> <<>>, cells |-> <<>>]

\* ErasedVec::new::<T>(): nothing allocated; the capacity of a vector of a
\* zero-size type is usize::MAX, and it never stores a byte.
ErasedVecNew(ty) ==
  [ty |-> ty, len |-> 0, cap |-> IF SizeOf(ty) = 0 THEN UsizeMax ELSE 0,
   filled |-> <<>>, cells |-> <<>>]

\* A reallocation that does not carry the old bytes over.
grow_exact_fresh(v, cap) ==
  LET new_cap == IF v.cap = 0 THEN 1 ELSE cap
  IN  [v EXCEPT !.cap = new_cap,
                !.cells = [i \in 1..new_cap |-> UninitCell]]

\* RawErasedVec::grow_exact: the buffer is (re)allocated to new_cap cells;
\* the cells already there keep their bytes, the new ones are uninitialised.
\* (Its assertion that the size is not zero can fail only once a zero-size
\* vector holds usize::MAX elements.)
grow_exact(v, cap) ==
  LET new_cap == IF v.cap = 0 THEN 1 ELSE cap
  IN  [v EXCEPT !.cap = new_cap,
                !.cells = [i \in 1..new_cap |->
                             IF i <= v.cap THEN v.cells[i] ELSE UninitCell]]

\* A growth by one cell instead of a doubling.
grow_by_one(v) == grow_exact(v, v.cap + 1)

grow(v) == grow_exact(v, 2 * v.cap)

GrowIfFull(v) == IF v.len = v.cap THEN grow(v) ELSE v

\* The cell indexed_ptr(index) points at.
\* A zero-size value is read from no byte at all: the read is always valid.
CellAt(v, index) ==
  IF SizeOf(v.ty) = 0 THEN LiveCell(0)
  ELSE IF index < v.cap THEN v.cells[index + 1] ELSE UninitCell

\* copy_nonoverlapping of size() bytes to the cell at index.
WriteCell(v, index, cell) ==
  IF SizeOf(v.ty) = 0 THEN v.cells ELSE [v.cells EXCEPT ![index + 1] = cell]

\* The result of a column operation: the column after it, whether it
\* panicked, and the destructor calls it made (type, index, the state of the
\* bits the destructor ran on).
VecOk(v, d) == [v |-> v, panic |-> FALSE, drops |-> d]
VecPanic(v, d) == [v |-> v, panic |-> TRUE, drops |-> d]

\* A push_erased without the descriptor assertion.
push_erased_unchecked(v, cell, ty) ==
  LET g == GrowIfFull(v) IN
  VecOk([g EXCEPT !.cells = WriteCell(g, g.len, cell),
                  !.filled = Append(g.filled, TRUE),
                  !.len = g.len + 1], <<>>)

\* ErasedVec::push::<T>: the descriptor is asserted before the buffer grows;
\* value is forgotten, so the cell owns it.
push(v, ty, val) ==
  IF ty # v.ty THEN VecPanic(v, <<>>)
  ELSE LET g == GrowIfFull(v) IN
       VecOk([g EXCEPT !.cells = WriteCell(g, g.len, LiveCell(val)),
                       !.filled = Append(g.filled, TRUE),
                       !.len = g.len + 1], <<>>)

\* ErasedVec::push_erased: the buffer grows before the descriptor is asserted.
push_erased(v, cell, ty) ==
  LET g == GrowIfFull(v) IN
  IF ty # g.ty THEN VecPanic(g, <<>>)
  ELSE VecOk([g EXCEPT !.cells = WriteCell(g, g.len, cell),
                       !.filled = Append(g.filled, TRUE),
                       !.len = g.len + 1], <<>>)

\* A pad that leaves the new slot marked filled.
pad_filled(v) == push_erased(v, ZeroCell, v.ty)

pad(v) ==
  LET r == push_erased(v, ZeroCell, v.ty) IN
  IF r.panic THEN r
  ELSE VecOk([r.v EXCEPT !.filled[v.len + 1] = FALSE], <<>>)

\* ptr::copy of the cells index..len one place to the right, then the write
\* of cell at index.
ShiftIn(v, index, cell) ==
  IF SizeOf(v.ty) = 0 THEN v.cells ELSE
  [i \in 1..v.cap |->
     IF i <= index THEN v.cells[i]
     ELSE IF i = index + 1 THEN cell
     ELSE IF i <= v.len + 1 THEN v.cells[i - 1]
     ELSE v.cells[i]]

\* Vec::insert(index, TRUE) on filled.
FilledInsert(filled, index) ==
  SubSeq(filled, 1, index) \o <<TRUE>> \o SubSeq(filled, index + 1, Len(filled))

\* ErasedVec::insert::<T>: value is not forgotten, it is dropped when insert
\* returns.
insert(v, index, ty, val) ==
  IF ty # v.ty THEN VecPanic(v, <<>>)
  ELSE IF ~(index <= v.len) THEN VecPanic(v, <<>>)
  ELSE LET g == GrowIfFull(v) IN
       VecOk([g EXCEPT !.cells = ShiftIn(g, index, DroppedCell(ty, val)),
                       !.filled = FilledInsert(g.filled, index),
                       !.len = g.len + 1],
             <<[ty |-> ty, st |-> "arg", index |-> index]>>)

\* ErasedVec::insert_erased: grows, then asserts the index, then the
\* descriptor.
insert_erased(v, index, ty, val) ==
  LET g == GrowIfFull(v) IN
  IF ~(index <= g.len) THEN VecPanic(g, <<>>)
  ELSE IF ty # g.ty THEN VecPanic(g, <<>>)
  ELSE VecOk([g EXCEPT !.cells = ShiftIn(g, index, LiveCell(val)),
                       !.filled = FilledInsert(g.filled, index),
                       !.len = g.len + 1], <<>>)

\* ErasedVec::set::<T>: the bits of data are copied into the cell and data
\* is dropped when set returns (it is not forgotten); filled is not touched.
set(v, index, ty, val) ==
  IF ty # v.ty THEN VecPanic(v, <<>>)
  ELSE IF ~(index <= v.len) THEN VecPanic(v, <<>>)
  ELSE LET g == GrowIfFull(v) IN
       VecOk([g EXCEPT !.cells = WriteCell(g, index, DroppedCell(ty, val))],
             <<[ty |-> ty, st |-> "arg", index |-> index]>>)

\* ErasedVec::set_erased: ownership of the value behind ptr moves in.
set_erased(v, index, ty, val) ==
  LET g == GrowIfFull(v) IN
  IF ~(index <= g.len) THEN VecPanic(g, <<>>)
  ELSE IF ty # g.ty THEN VecPanic(g, <<>>)
  ELSE LET w == [g EXCEPT !.cells = WriteCell(g, index, LiveCell(val))] IN
       IF index < Len(w.filled)
       THEN VecOk([w EXCEPT !.filled[index + 1] = TRUE], <<>>)
       ELSE VecPanic(w, <<>>)

\* ErasedVec::clear: runs the destructor on whatever the cell holds.
clear(v, index) ==
  IF ~(index <= v.len) THEN VecPanic(v, <<>>)
  ELSE LET c == CellAt(v, index) IN
       VecOk(IF index < v.cap
                /\ c.st \in {"live", "dropped"}
             THEN [v EXCEPT
                     !.cells = WriteCell(v, index, DroppedCell(v.ty, c.val))]
             ELSE v,
             <<[ty |-> v.ty, st |-> c.st, index |-> index]>>)

reset_erased(v, index, ty, val) ==
  LET c == clear(v, index) IN
  IF c.panic THEN c
  ELSE LET s == set_erased(c.v, index, ty, val) IN
       [s EXCEPT !.drops = c.drops \o s.drops]

\* The values a read of the cell as a T can yield: the bits written, unless
\* the read is undefined (uninitialised memory, or a heap-owning value that
\* was already destructed), which can yield anything.
ReadCell(ty, c) ==
  IF c.st = "uninit" \/ (NeedsDrop(ty) /\ c.st = "dropped")
  THEN 0..MaxVal
  ELSE {c.val}

\* ErasedVec::get::<T> / get_mut::<T>: the readable values, {} for a panic.
get(v, ty, index) ==
  IF ty # v.ty THEN {}
  ELSE IF ~(index <= v.len) THEN {}
  ELSE ReadCell(ty, CellAt(v, index))

\* ErasedVec::get_unchecked::<T>: only the index is asserted; ty is the type
\* the caller reads the bytes as ("bytes" for a plain byte array of the
\* element's size). Reading a sized value out of a zero-size element reads
\* memory the vector does not own.
get_unchecked(v, ty, index) ==
  IF ~(index <= v.len) THEN {}
  ELSE IF SizeOf(v.ty) = 0 /\ ty \in Types THEN 0..MaxVal
  ELSE ReadCell(ty, CellAt(v, index))

\* A teardown that runs the destructor on every slot below len.
RECURSIVE DropFromAll(_, _)
DropFromAll(v, index) ==
  IF index >= v.len THEN <<>>
  ELSE <<[ty |-> v.ty, st |-> CellAt(v, index).st, index |-> index]>>
         \o DropFromAll(v, index + 1)

\* impl Drop for ErasedVec: the destructor calls of a column torn down.
RECURSIVE DropFrom(_, _)
DropFrom(v, index) ==
  IF index >= v.len THEN <<>>
  ELSE (IF v.filled[index + 1]
        THEN <<[ty |-> v.ty, st |-> CellAt(v, index).st, index |-> index]>>
        ELSE <<>>) \o DropFrom(v, index + 1)

ErasedVecDrop(v) == DropFrom(v, 0)


\* ------------------------------------------------------------------ state
VARIABLES
  components,            \* EntitiesInner.components: type -> column
  bitmasks,              \* EntitiesInner.bitmasks: type -> mask
  map,                   \* EntitiesInner.map: the entity masks
  inserting_into_index,  \* EntitiesInner.inserting_into_index
  op,                    \* the last call
  ret,                   \* what the last call returned
  drops,                 \* the destructor calls the last call made
  regOrder,              \* the types register_component was called with
  vec,                   \* an ErasedVec used on its own
  hist,                  \* the calls made on vec, in order
  commands               \* CommandBuffer.commands

vars == <<components, bitmasks, map, inserting_into_index, op, ret, drops,
          regOrder, vec, hist, commands>>

EmptyMap == [t \in {} |-> 0]

\* The last call: its name and, for delete_entity, the entity deleted when
\* it held a component (for the create_entity that follows a delete_entity,
\* that same entity).
Call(name) == [name |-> name, entity |-> NoEntity]

Ok(x) == [val |-> x, tag |-> "Ok"]
Err(e) == [tag |-> "Err", err |-> e]
Panic == [tag |-> "Panic"]
Unit == 0

\* A panic unwinds out of the program: nothing runs after it.
Running == ret.tag # "Panic"

\* Entity ids callers pass: every slot the bound allows and one beyond.
Entities == 0..MaxEntities

Some(x) == [val |-> x, some |-> TRUE]
None == [val |-> {}, some |-> FALSE]

\* map[entity] of the Vec<u128>.
InRange(m, entity) == entity >= 0 /\ entity < Len(m)
MaskOf(m, entity) == m[entity + 1]

Init ==
  /\ components = EmptyMap
  /\ bitmasks = EmptyMap
  /\ map = <<>>
  /\ inserting_into_index = 0
  /\ op = Call("new")
  /\ ret = Ok(Unit)
  /\ drops = <<>>
  /\ regOrder = <<>>
  /\ vec = ErasedVecNew("u32")
  /\ hist = <<>>
  /\ commands = <<>>

\* ------------------------------------------------------- EntitiesInner
get_bitmask(ty) == IF ty \in DOMAIN bitmasks THEN Some(bitmasks[ty]) ELSE None

\* A registration that gives every type bit 0.
NextBitmaskFirst == Shl1(0)

\* The mask register_component gives the next type.
NextBitmask == Shl1(Cardinality(DOMAIN bitmasks))

\* Whether 1 << n panics on a u128: a shift by the width or more is an
\* overflow, which panics in a build with overflow checks and wraps the
\* shift amount (Shl1) in a build without them.
ShlPanics(n) == IF n >= MaskBits THEN {TRUE, FALSE} ELSE {FALSE}

\* register_component::<T>(): the column is inserted before the mask is
\* computed.
RegisterComponent(ty) ==
  /\ Running
  /\ components' = (ty :> ErasedVecNew(ty)) @@ components
  /\ \E panics \in ShlPanics(Cardinality(DOMAIN bitmasks)) :
       /\ bitmasks' = IF panics THEN bitmasks
                      ELSE (ty :> NextBitmask) @@ bitmasks
       /\ regOrder' = IF panics THEN regOrder ELSE Append(regOrder, ty)
       /\ ret' = IF panics THEN Panic ELSE Ok(Unit)
  /\ drops' = IF ty \in DOMAIN components
              THEN ErasedVecDrop(components[ty]) ELSE <<>>
  /\ op' = Call("register_component")
  /\ UNCHANGED <<map, inserting_into_index, vec, hist, commands>>

\* The k-th of the pairwise distinct types a caller registers.
TypeName(k) == "T" \o ToString(k)

\* register_component on a type not registered before.
RegisterFresh ==
  /\ Cardinality(DOMAIN bitmasks) < MaxTypes
  /\ RegisterComponent(TypeName(Cardinality(DOMAIN bitmasks)))

\* A search that returns the last slot with mask 0 instead of the first.
RECURSIVE FindFreeLast(_, _)
FindFreeLast(m, index) ==
  IF index >= Len(m) THEN NoEntity
  ELSE LET later == FindFreeLast(m, index + 1) IN
       IF later # NoEntity THEN later
       ELSE IF MaskOf(m, index) = {} THEN index ELSE NoEntity

\* A search that takes the first slot whatever its mask.
FindFreeAny(m, index) == IF index >= Len(m) THEN NoEntity ELSE index

\* map.iter().enumerate().find(|(_, mask)| **mask == 0), from index on.
RECURSIVE FindFree(_, _)
FindFree(m, index) ==
  IF index >= Len(m) THEN NoEntity
  ELSE IF MaskOf(m, index) = {} THEN index
  ELSE FindFree(m, index + 1)

\* The id deleted by the call right before this one, when that call was a
\* delete_entity that succeeded on an entity holding a component.
JustDeleted ==
  IF op.name = "delete_entity" /\ ret.tag = "Ok" THEN op.entity ELSE NoEntity

CreateEntity ==
  /\ Running
  /\ LET free == FindFree(map, 0) IN
     IF free # NoEntity
     THEN /\ inserting_into_index' = free
          /\ UNCHANGED <<components, map>>
     ELSE /\ Len(map) < MaxEntities
          /\ components' = [t \in DOMAIN components |-> pad(components[t]).v]
          /\ map' = Append(map, {})
          /\ inserting_into_index' = Len(map') - 1
  /\ op' = [name |-> "create_entity", entity |-> JustDeleted]
  /\ ret' = Ok(inserting_into_index')
  /\ drops' = <<>>
  /\ UNCHANGED <<bitmasks, regOrder, vec, hist, commands>>

\* The outcome of a call on the table: the columns and masks after it, its
\* result and its destructor calls.
Out(c, m, r, d) == [drops |-> d, components |-> c, map |-> m, ret |-> r]

\* with_component::<T>(data) on the columns c and masks m.
with_component(c, m, ty, val) ==
  LET index == inserting_into_index IN
  IF ty \in DOMAIN c
  THEN LET r == set(c[ty], index, ty, val)
           c1 == [c EXCEPT ![ty] = r.v]
       IN  IF r.panic THEN Out(c1, m, Panic, r.drops)
           ELSE IF ~InRange(m, index) THEN Out(c1, m, Panic, r.drops)
           ELSE Out(c1, [m EXCEPT ![index + 1] = BitOr(@, bitmasks[ty])],
                    Ok(Unit), r.drops)
  ELSE Out(c, m, Err("CreateComponentNeverCalled"), <<>>)

\* A closure that writes into slot 0 whatever the staging cursor is.
with_components_f_first(c, m, ty, val) ==
  IF ty \in DOMAIN c
  THEN LET r == set_erased(c[ty], 0, ty, val)
           c1 == [c EXCEPT ![ty] = r.v]
       IN  IF r.panic THEN Out(c1, m, Panic, r.drops)
           ELSE IF ~InRange(m, 0) THEN Out(c1, m, Panic, r.drops)
           ELSE Out(c1, [m EXCEPT ![1] = BitOr(@, bitmasks[ty])],
                    Ok(Unit), r.drops)
  ELSE Out(c, m, Err("CreateComponentNeverCalled"), <<>>)

\* The closure with_components hands to Bundle::put.
with_components_f(c, m, ty, val) ==
  LET entity == inserting_into_index IN
  IF ty \in DOMAIN c
  THEN LET r == set_erased(c[ty], entity, ty, val)
           c1 == [c EXCEPT ![ty] = r.v]
       IN  IF r.panic THEN Out(c1, m, Panic, r.drops)
           ELSE IF ~InRange(m, entity) THEN Out(c1, m, Panic, r.drops)
           ELSE Out(c1, [m EXCEPT ![entity + 1] = BitOr(@, bitmasks[ty])],
                    Ok(Unit), r.drops)
  ELSE Out(c, m, Err("CreateComponentNeverCalled"), <<>>)

\* A presence test that only looks at the registration and the id.
has_component_registered(m, entity, ty) ==
  IF ty \in DOMAIN bitmasks
  THEN IF InRange(m, entity) THEN Ok(TRUE) ELSE Panic
  ELSE Err("ComponentNotRegistered")

\* A presence test that answers false for a type without a mask.
has_component_lenient(m, entity, ty) ==
  IF ty \in DOMAIN bitmasks
  THEN IF InRange(m, entity)
       THEN Ok(BitAnd(MaskOf(m, entity), bitmasks[ty]) # {})
       ELSE Panic
  ELSE Ok(FALSE)

\* has_component::<T> / has_component_erased on the masks m.
has_component(m, entity, ty) ==
  LET b == get_bitmask(ty) IN
  IF b.some
  THEN IF InRange(m, entity)
       THEN Ok(BitAnd(MaskOf(m, entity), b.val) # {})
       ELSE Panic
  ELSE Err("ComponentNotRegistered")

\* add_component::<T>(entity, component).
add_component(c, m, entity, ty, val) ==
  LET b == get_bitmask(ty) IN
  IF ~b.some THEN Out(c, m, Err("ComponentNotRegistered"), <<>>)
  ELSE IF ~InRange(m, entity) THEN Out(c, m, Panic, <<>>)
  ELSE LET m1 == [m EXCEPT ![entity + 1] = BitOr(@, b.val)]
           r == set(c[ty], entity, ty, val)
           c1 == [c EXCEPT ![ty] = r.v]
       IN  Out(c1, m1, IF r.panic THEN Panic ELSE Ok(Unit), r.drops)

\* An add_component_erased that always takes the plain overwrite.
add_component_erased_plain(c, m, entity, ty, val) ==
  LET h == has_component(m, entity, ty) IN
  IF h.tag # "Ok" THEN Out(c, m, h, <<>>)
  ELSE IF ty \in DOMAIN c
  THEN LET r == set_erased(c[ty], entity, ty, val)
           c1 == [c EXCEPT ![ty] = r.v]
       IN  IF r.panic THEN Out(c1, m, Panic, r.drops)
           ELSE Out(c1, [m EXCEPT ![entity + 1] = BitOr(@, bitmasks[ty])],
                    Ok(Unit), r.drops)
  ELSE Out(c, m, Err("CreateComponentNeverCalled"), <<>>)

\* add_component_erased(entity, ty, ptr), also the closure of add_components.
add_component_erased(c, m, entity, ty, val) ==
  LET h == has_component(m, entity, ty) IN
  IF h.tag # "Ok" THEN Out(c, m, h, <<>>)
  ELSE IF ty \in DOMAIN c
  THEN LET r == IF h.val THEN reset_erased(c[ty], entity, ty, val)
                ELSE set_erased(c[ty], entity, ty, val)
           c1 == [c EXCEPT ![ty] = r.v]
       IN  IF r.panic THEN Out(c1, m, Panic, r.drops)
           ELSE Out(c1, [m EXCEPT ![entity + 1] = BitOr(@, bitmasks[ty])],
                    Ok(Unit), r.drops)
  ELSE Out(c, m, Err("CreateComponentNeverCalled"), <<>>)

\* Bundle::put: the closure runs on each element in order; the first error
\* (or panic) ends the call.  closure is "with" or "add".
RECURSIVE put(_, _, _, _, _, _, _)
put(closure, c, m, entity, bundle, k, d) ==
  IF k > Len(bundle) THEN Out(c, m, Ok(Unit), d)
  ELSE LET o == IF closure = "with"
                THEN with_components_f(c, m, bundle[k].ty, bundle[k].val)
                ELSE add_component_erased(c, m, entity, bundle[k].ty,
                                          bundle[k].val)
       IN  IF o.ret.tag # "Ok"
           THEN Out(o.components, o.map, o.ret, d \o o.drops)
           ELSE put(closure, o.components, o.map, entity, bundle, k + 1,
                    d \o o.drops)

with_components(c, m, bundle) == put("with", c, m, NoEntity, bundle, 1, <<>>)

add_components(c, m, entity, bundle) == put("add", c, m, entity, bundle, 1, <<>>)

\* A deletion that clears the whole mask of the entity.
delete_component_all(c, m, entity, ty) ==
  IF ty \in DOMAIN bitmasks
  THEN IF InRange(m, entity)
       THEN Out(c, [m EXCEPT ![entity + 1] = {}], Ok(Unit), <<>>)
       ELSE Out(c, m, Panic, <<>>)
  ELSE Out(c, m, Ok(Unit), <<>>)

\* delete_component::<T> / delete_component_erased.
delete_component(c, m, entity, ty) ==
  LET b == get_bitmask(ty) IN
  IF b.some
  THEN IF InRange(m, entity)
       THEN Out(c, [m EXCEPT ![entity + 1] = BitAnd(@, BitNot(b.val))],
                Ok(Unit), <<>>)
       ELSE Out(c, m, Panic, <<>>)
  ELSE Out(c, m, Ok(Unit), <<>>)

\* A deletion that clears bit 0 of the mask only.
delete_entity_first_bit(c, m, entity) ==
  IF InRange(m, entity)
  THEN Out(c, [m EXCEPT ![entity + 1] = @ \ {0}], Ok(Unit), <<>>)
  ELSE Out(c, m, Err("EntityDoesNotExist"), <<>>)

delete_entity(c, m, entity) ==
  IF InRange(m, entity)
  THEN Out(c, [m EXCEPT ![entity + 1] = {}], Ok(Unit), <<>>)
  ELSE Out(c, m, Err("EntityDoesNotExist"), <<>>)

\* A call whose outcome is o takes effect.
Commit(o) ==
  /\ components' = o.components
  /\ map' = o.map
  /\ ret' = o.ret
  /\ drops' = o.drops
  /\ UNCHANGED <<bitmasks, inserting_into_index, regOrder, vec, hist,
                 commands>>

\* The bundles callers pass: tuples of up to MaxBundle typed values.
Elements == [ty : Types, val : Values]
Bundles == UNION {[1..n -> Elements] : n \in 0..MaxBundle}

WithComponent(ty, val) ==
  /\ Running
  /\ Commit(with_component(components, map, ty, val))
  /\ op' = Call("with_component")

WithComponents(bundle) ==
  /\ Running
  /\ Commit(with_components(components, map, bundle))
  /\ op' = Call("with_components")

AddComponent(entity, ty, val) ==
  /\ Running
  /\ Commit(add_component(components, map, entity, ty, val))
  /\ op' = Call("add_component")

\* add_components(entity, bundle); with a bundle of one element this is
\* also add_component_erased(entity, ty, ptr).
AddComponents(entity, bundle) ==
  /\ Running
  /\ Commit(add_components(components, map, entity, bundle))
  /\ op' = Call("add_components")

\* delete_component::<T>(entity) and delete_component_erased(entity, ty):
\* the two differ only in how the type is named.
DeleteComponent(entity, ty) ==
  /\ Running
  /\ Commit(delete_component(components, map, entity, ty))
  /\ op' = Call("delete_component")

DeleteEntity(entity) ==
  /\ Running
  /\ Commit(delete_entity(components, map, entity))
  /\ op' = [name |-> "delete_entity",
            entity |-> IF InRange(map, entity) /\ MaskOf(map, entity) # {}
                       THEN entity ELSE NoEntity]


\* ------------------------------------------------------------------ World
\* A read-only call returns r; the table is untouched.
Observe(r) ==
  /\ ret' = r
  /\ drops' = <<>>
  /\ UNCHANGED <<components, bitmasks, map, inserting_into_index, regOrder,
                 vec, hist, commands>>

\* World::get_component::<T> / get_component_mut::<T>: the results the
\* call can give.
get_component(entity, ty) ==
  LET h == has_component(map, entity, ty) IN
  IF h.tag # "Ok" THEN {h}
  ELSE IF h.val
  THEN IF ty \in DOMAIN components
       THEN LET vals == get(components[ty], ty, entity) IN
            IF vals = {} THEN {Panic} ELSE {Ok(x) : x \in vals}
       ELSE {Err("ComponentNotRegistered")}
  ELSE {Err("ComponentDataDoesNotExist")}

GetComponent(entity, ty) ==
  /\ Running
  /\ \E r \in get_component(entity, ty) : Observe(r)
  /\ op' = Call("get_component")

\* ------------------------------------------------------------------ Query
QueryNew == [map |-> {}, exclude_map |-> {}]

\* Query::with_component::<T> / without_component::<T> on the query q.
query_with_component(q, ty) ==
  LET b == get_bitmask(ty) IN
  IF b.some THEN Ok([q EXCEPT !.map = BitOr(@, b.val)])
  ELSE Err("ComponentNotRegistered")

\* A without_component that ORs the bit into both masks.
query_without_both(q, ty) ==
  LET b == get_bitmask(ty) IN
  IF b.some THEN Ok([q EXCEPT !.map = BitOr(@, b.val),
                              !.exclude_map = BitOr(@, b.val)])
  ELSE Err("ComponentNotRegistered")

query_without_component(q, ty) ==
  LET b == get_bitmask(ty) IN
  IF b.some THEN Ok([q EXCEPT !.exclude_map = BitOr(@, b.val)])
  ELSE Err("ComponentNotRegistered")

\* A scan that tests the include mask only.
RECURSIVE RunFromIncludeOnly(_, _, _)
RunFromIncludeOnly(q, m, index) ==
  IF index >= Len(m) THEN <<>>
  ELSE (IF BitAnd(MaskOf(m, index), q.map) = q.map
        THEN <<index>> ELSE <<>>) \o RunFromIncludeOnly(q, m, index + 1)

\* Query::run: the ids of the handles, from slot index on.
RECURSIVE RunFrom(_, _, _)
RunFrom(q, m, index) ==
  IF index >= Len(m) THEN <<>>
  ELSE (IF BitAnd(MaskOf(m, index), BitOr(q.map, q.exclude_map)) = q.map
        THEN <<index>> ELSE <<>>) \o RunFrom(q, m, index + 1)

run(q) == RunFrom(q, map, 0)

\* The builder calls made on a query before run: each is with_component or
\* without_component of a type.
Calls == [with : BOOLEAN, ty : Types]
Chains == UNION {[1..n -> Calls] : n \in 0..MaxChain}

\* The calls of chain from the k-th on, made on q; the first error ends it.
RECURSIVE Build(_, _, _)
Build(q, chain, k) ==
  IF k > Len(chain) THEN Ok(q)
  ELSE LET r == IF chain[k].with
                THEN query_with_component(q, chain[k].ty)
                ELSE query_without_component(q, chain[k].ty)
       IN  IF r.tag # "Ok" THEN r ELSE Build(r.val, chain, k + 1)

\* world.query(), the builder calls of chain, then run().
QueryRun(chain) ==
  /\ Running
  /\ LET b == Build(QueryNew, chain, 1) IN
     /\ Observe(IF b.tag = "Ok" THEN Ok(run(b.val)) ELSE b)
     /\ op' = Call("query_run")

\* QueryEntity::get_component::<T> / get_component_mut::<T> of the handle
\* for id: the results the call can give.
query_entity_get_component(id, ty) ==
  LET h == has_component(map, id, ty) IN
  IF h.tag # "Ok" THEN {h}
  ELSE IF h.val
  THEN {Ok(x) : x \in ReadCell(ty, CellAt(components[ty], id))}
  ELSE {Err("ComponentDataDoesNotExist")}

QueryEntityGet(id, ty) ==
  /\ Running
  /\ \E r \in query_entity_get_component(id, ty) : Observe(r)
  /\ op' = Call("query_entity_get_component")

\* -------------------------------------------------- ErasedVec on its own
\* A vector of either element type, nothing called on it yet.
VecInit ==
  /\ components = EmptyMap
  /\ bitmasks = EmptyMap
  /\ map = <<>>
  /\ inserting_into_index = 0
  /\ op = Call("new")
  /\ ret = Ok(Unit)
  /\ drops = <<>>
  /\ regOrder = <<>>
  /\ \E ty \in VecTypes : vec = ErasedVecNew(ty)
  /\ hist = <<>>
  /\ commands = <<>>

\* Indices callers pass: every slot, the one past the end (which the index
\* assertions let through) and one beyond.
VecIndices == 0..(vec.len + 1)

\* vec can still be called: no call panicked and it was not dropped.
VecLive == Running /\ op.name # "drop"

\* A mutating call on vec with result r, recorded in hist.
VecCall(name, index, ty, val, r) ==
  /\ VecLive
  /\ Len(hist) < MaxOps
  /\ vec' = r.v
  /\ ret' = IF r.panic THEN Panic ELSE Ok(Unit)
  /\ drops' = r.drops
  /\ op' = Call(name)
  /\ hist' = Append(hist, [ty |-> ty, val |-> val, index |-> index,
                           name |-> name])
  /\ UNCHANGED <<components, bitmasks, map, inserting_into_index, regOrder,
                 commands>>

VecPush(ty, val) == VecCall("push", vec.len, ty, val, push(vec, ty, val))

VecPushErased(ty, val) ==
  VecCall("push_erased", vec.len, ty, val,
          push_erased(vec, LiveCell(val), ty))

VecPad == VecCall("pad", vec.len, vec.ty, 0, pad(vec))

VecInsert(index, ty, val) ==
  VecCall("insert", index, ty, val, insert(vec, index, ty, val))

VecInsertErased(index, ty, val) ==
  VecCall("insert_erased", index, ty, val, insert_erased(vec, index, ty, val))

VecSet(index, ty, val) ==
  VecCall("set", index, ty, val, set(vec, index, ty, val))

VecSetErased(index, ty, val) ==
  VecCall("set_erased", index, ty, val, set_erased(vec, index, ty, val))

\* A read of vec: the value it yields, or the panic.
VecRead(name, vals) ==
  /\ VecLive
  /\ \/ vals = {} /\ ret' = Panic
     \/ \E x \in vals : ret' = Ok(x)
  /\ drops' = <<>>
  /\ op' = Call(name)
  /\ UNCHANGED <<components, bitmasks, map, inserting_into_index, regOrder,
                 vec, hist, commands>>

\* vec goes out of scope, also when a panic unwinds: drops are the destructor
\* calls impl Drop makes.
VecDrop ==
  /\ op.name # "drop"
  /\ drops' = ErasedVecDrop(vec)
  /\ op' = Call("drop")
  /\ UNCHANGED <<components, bitmasks, map, inserting_into_index, regOrder,
                 vec, hist, ret, commands>>

VecGet(index, ty) == VecRead("get", get(vec, ty, index))

VecGetUnchecked(index, ty) ==
  VecRead("get_unchecked", get_unchecked(vec, ty, index))

\* ------------------------------------------------- RawErasedVec, ErasedBox
\* The buffer of an ErasedBox and the buffer grow_exact is called on are
\* RawErasedVecs: len stays 0 and filled empty, which a RawErasedVec lacks.

\* RawErasedVec::new_erased(ty): capacity 0 whatever the size of the type.
new_erased(ty) ==
  [ty |-> ty, len |-> 0, cap |-> 0, filled |-> <<>>, cells |-> <<>>]

\* Capacities a caller of grow_exact requests.
Caps == 1..MaxCap

\* buf.grow_exact(cap) as a call: its first statement asserts that the size
\* of the type is not zero.
raw_grow_exact(v, cap) ==
  IF SizeOf(v.ty) = 0 THEN VecPanic(v, <<>>)
  ELSE VecOk(grow_exact(v, cap), <<>>)

\* buf.grow() as a call.
raw_grow(v) ==
  IF SizeOf(v.ty) = 0 THEN VecPanic(v, <<>>) ELSE VecOk(grow(v), <<>>)

\* copy_nonoverlapping of the value to the start of the grown buffer.
BoxWrite(r, cell) ==
  IF r.panic THEN r
  ELSE VecOk([r.v EXCEPT !.cells = WriteCell(r.v, 0, cell)], <<>>)

\* ErasedBox::new::<T>(value), which Resources::add_resource calls.
ErasedBoxNew(ty, val) ==
  BoxWrite(raw_grow_exact(ErasedVecNew(ty), 1), LiveCell(val))

\* ErasedBox::from_raw_parts(ty, ptr).
from_raw_parts(ty, cell) ==
  BoxWrite(raw_grow_exact(new_erased(ty), 1), cell)

RawGrowExact(cap) ==
  VecCall("grow_exact", cap, vec.ty, 0, raw_grow_exact(vec, cap))

RawGrow == VecCall("grow", 0, vec.ty, 0, raw_grow(vec))

BoxNew(ty, val) ==
  VecCall("ErasedBox::new", 0, ty, val, ErasedBoxNew(ty, val))

BoxFromRawParts(ty, val) ==
  VecCall("from_raw_parts", 0, ty, val, from_raw_parts(ty, LiveCell(val)))

\* ---------------------------------------------------------- CommandBuffer
\* A recorded command.  entity is NoEntity for the None of spawn_entity;
\* components are the (TypeInfo, ptr) pairs put handed over, with the value
\* each ptr pointed at when it was recorded.
Command(kind, entity, comps, tys) ==
  [components |-> comps, entity |-> entity, kind |-> kind, tys |-> tys]


\* count_items!: one more than the count of the rest.
RECURSIVE count_items(_)
count_items(names) ==
  IF names = <<>> THEN 0 ELSE 1 + count_items(Tail(names))

\* Bundle::LENGTH of the tuple type of bundle.
LENGTH(bundle) == count_items(bundle)

\* Bundle::types(): the descriptors pushed element by element.
RECURSIVE TypesFrom(_, _)
TypesFrom(bundle, k) ==
  IF k > Len(bundle) THEN <<>>
  ELSE <<bundle[k].ty>> \o TypesFrom(bundle, k + 1)

types(bundle) == TypesFrom(bundle, 1)

\* A put that walks the tuple from its last element to its first.
RECURSIVE PutCallsReversed(_, _)
PutCallsReversed(bundle, k) ==
  IF k > Len(bundle) THEN <<>>
  ELSE PutCallsReversed(bundle, k + 1)
         \o <<[ty |-> bundle[k].ty, val |-> bundle[k].val]>>

\* Bundle::put with a callback that always returns Ok: the (descriptor,
\* pointee) pairs the callback is called with, from the k-th element on.
RECURSIVE PutCalls(_, _)
PutCalls(bundle, k) ==
  IF k > Len(bundle) THEN <<>>
  ELSE <<[ty |-> bundle[k].ty, val |-> bundle[k].val]>>
         \o PutCalls(bundle, k + 1)

\* A call that records cmd.
Record(name, cmd) ==
  /\ Running
  /\ Len(commands) < MaxCmds
  /\ commands' = Append(commands, cmd)
  /\ op' = Call(name)
  /\ ret' = Ok(Unit)
  /\ drops' = <<>>
  /\ UNCHANGED <<components, bitmasks, map, inserting_into_index, regOrder,
                 vec, hist>>

spawn_entity(bundle) ==
  Record("spawn_entity",
         Command("InsertOrSpawn", NoEntity, PutCalls(bundle, 1), <<>>))

insert_components(entity, bundle) ==
  Record("insert_components",
         Command("InsertOrSpawn", entity, PutCalls(bundle, 1), <<>>))

\* remove_components::<T>: bundle stands for the tuple type T.
remove_components(entity, bundle) ==
  Record("remove_components",
         Command("RemoveComponent", entity, <<>>, types(bundle)))

buffer_delete_entity(entity) ==
  Record("delete_entity", Command("DeleteEntity", entity, <<>>, <<>>))

\* The state of the world a command works on, and the outcome of the
\* commands so far.
Step(c, m, index, r, d) ==
  [index |-> index, drops |-> d, components |-> c, map |-> m, ret |-> r]

\* World::reserve_entity, as EntitiesInner::create_entity computes it.
reserve_entity(c, m, index) ==
  LET free == FindFree(m, 0) IN
  IF free # NoEntity THEN Step(c, m, free, Ok(free), <<>>)
  ELSE Step([t \in DOMAIN c |-> pad(c[t]).v], Append(m, {}), Len(m),
            Ok(Len(m)), <<>>)

\* Result::unwrap.
Unwrap(r) == IF r.tag = "Ok" THEN r ELSE Panic

\* The loop over remove_info.tys, from the k-th type on; o is the outcome of
\* the k-th delete_component(...).unwrap().
RECURSIVE RemoveAll(_, _, _, _, _)
RemoveNext(o, entity, tys, k) ==
  IF o.ret.tag # "Ok" THEN Out(o.components, o.map, Unwrap(o.ret), <<>>)
  ELSE RemoveAll(o.components, o.map, entity, tys, k + 1)

RemoveAll(c, m, entity, tys, k) ==
  IF k > Len(tys) THEN Out(c, m, Ok(Unit), <<>>)
  ELSE RemoveNext(delete_component(c, m, entity, tys[k]), entity, tys, k)

\* The .unwrap() that ends every arm of the match in run.
Unwrapped(o, index) ==
  Step(o.components, o.map, index, Unwrap(o.ret), o.drops)

\* world.add_components_erased(entity, ...) on the entity of the step s.
InsertInto(s, comps) ==
  Unwrapped(put("add", s.components, s.map, s.ret.val, comps, 1, <<>>),
            s.index)

\* One arm of the match in run.
RunCommand(c, m, index, cmd) ==
  IF cmd.kind = "InsertOrSpawn"
  THEN InsertInto(IF cmd.entity = NoEntity THEN reserve_entity(c, m, index)
                  ELSE Step(c, m, index, Ok(cmd.entity), <<>>),
                  cmd.components)
  ELSE IF cmd.kind = "RemoveComponent"
  THEN Unwrapped(RemoveAll(c, m, cmd.entity, cmd.tys, 1), index)
  ELSE Unwrapped(delete_entity(c, m, cmd.entity), index)

\* for cmd in &self.commands, from the k-th command on; s is the outcome of
\* the k-th command, and a panic ends the loop.
RECURSIVE RunFromCommand(_, _, _, _, _, _)
RunNext(s, cmds, k, d) ==
  IF s.ret.tag # "Ok"
  THEN Step(s.components, s.map, s.index, s.ret, d \o s.drops)
  ELSE RunFromCommand(s.components, s.map, s.index, cmds, k + 1,
                      d \o s.drops)

RunFromCommand(c, m, index, cmds, k, d) ==
  IF k > Len(cmds) THEN Step(c, m, index, Ok(Unit), d)
  ELSE RunNext(RunCommand(c, m, index, cmds[k]), cmds, k, d)

\* What the pointers recorded in cmds can yield when run reads through
\* them: put handed out the addresses of its own locals, which are gone when
\* the recording call returns, so each read yields whatever is there.
Derefs(cmds) ==
  {r \in [1..Len(cmds) -> [1..MaxBundle -> 0..MaxVal]] :
     \A k \in 1..Len(cmds), j \in 1..MaxBundle :
       j > Len(cmds[k].components) => r[k][j] = 0}

Deref(cmds, r) ==
  [k \in 1..Len(cmds) |->
     [cmds[k] EXCEPT !.components =
        [j \in 1..Len(@) |-> [ty |-> @[j].ty, val |-> r[k][j]]]]]

\* CommandBuffer::run(world).
CommandBufferRun ==
  /\ Running
  /\ \E r \in Derefs(commands) :
     \E s \in {RunFromCommand(components, map, inserting_into_index,
                              Deref(commands, r), 1, <<>>)} :
           /\ Len(s.map) <= MaxEntities
           /\ components' = s.components
           /\ map' = s.map
           /\ inserting_into_index' = s.index
           /\ ret' = s.ret
           /\ drops' = s.drops
  /\ op' = Call("run")
  /\ UNCHANGED <<bitmasks, regOrder, vec, hist, commands>>

\* CommandBuffer::clear: its body is empty.
CommandBufferClear ==
  /\ Running
  /\ op' = Call("clear")
  /\ ret' = Ok(Unit)
  /\ drops' = <<>>
  /\ UNCHANGED <<components, bitmasks, map, inserting_into_index, regOrder,
                 vec, hist, commands>>

\* ---------------------------------------------------------- specification
\* The calls that change the table.  register_component is called with a
\* type not registered yet: registering a type twice is a caller error.
Mutate ==
  \/ \E ty \in Types \ DOMAIN bitmasks : RegisterComponent(ty)
  \/ CreateEntity
  \/ \E ty \in Types, val \in Values : WithComponent(ty, val)
  \/ \E bundle \in Bundles : WithComponents(bundle)
  \/ \E entity \in Entities, ty \in Types, val \in Values :
       AddComponent(entity, ty, val)
  \/ \E entity \in Entities, bundle \in Bundles : AddComponents(entity, bundle)
  \/ \E entity \in Entities, ty \in Types : DeleteComponent(entity, ty)
  \/ \E entity \in Entities : DeleteEntity(entity)

Next ==
  \/ Mutate
  \/ \E entity \in Entities, ty \in Types : GetComponent(entity, ty)
  \/ \E id \in Entities, ty \in Types : QueryEntityGet(id, ty)

NextQuery ==
  \/ Mutate
  \/ \E chain \in Chains : QueryRun(chain)

NextVec ==
  \/ \E ty \in VecTypes : \E val \in VecValuesOf(ty) : VecPush(ty, val)
  \/ \E ty \in VecTypes : \E val \in VecValuesOf(ty) :
       VecPushErased(ty, val)
  \/ VecPad
  \/ \E index \in VecIndices, ty \in VecTypes : \E val \in VecValuesOf(ty) :
       VecInsert(index, ty, val)
  \/ \E index \in VecIndices, ty \in VecTypes : \E val \in VecValuesOf(ty) :
       VecInsertErased(index, ty, val)
  \/ \E index \in VecIndices, ty \in VecTypes : \E val \in VecValuesOf(ty) :
       VecSet(index, ty, val)
  \/ \E index \in VecIndices, ty \in VecTypes : \E val \in VecValuesOf(ty) :
       VecSetErased(index, ty, val)
  \/ \E index \in VecIndices, ty \in VecTypes : VecGet(index, ty)
  \/ VecDrop
  \/ \E index \in VecIndices, ty \in VecTypes \cup {"bytes"} :
       VecGetUnchecked(index, ty)

NextCmd ==
  \/ \E ty \in Types \ DOMAIN bitmasks : RegisterComponent(ty)
  \/ CreateEntity
  \/ \E bundle \in Bundles : spawn_entity(bundle)
  \/ \E entity \in Entities, bundle \in Bundles :
       insert_components(entity, bundle)
  \/ \E entity \in Entities, bundle \in Bundles :
       remove_components(entity, bundle)
  \/ \E entity \in Entities : buffer_delete_entity(entity)
  \/ CommandBufferRun
  \/ CommandBufferClear

NextRaw ==
  \/ \E cap \in Caps : RawGrowExact(cap)
  \/ RawGrow
  \/ \E ty \in VecTypes : \E val \in VecValuesOf(ty) : BoxNew(ty, val)
  \/ \E ty \in VecTypes : \E val \in VecValuesOf(ty) :
       BoxFromRawParts(ty, val)

NextReg == RegisterFresh

Spec == Init /\ [][Next]_vars

SpecQuery == Init /\ [][NextQuery]_vars

SpecVec == VecInit /\ [][NextVec]_vars

SpecCmd == Init /\ [][NextCmd]_vars

SpecRaw == VecInit /\ [][NextRaw]_vars

SpecReg == Init /\ [][NextReg]_vars

\* ------------------------------------------------------------- properties
Slots == {i \in Entities : InRange(map, i)}
Registered == DOMAIN bitmasks
Range(s) == {s[k] : k \in 1..Len(s)}
IsAscending(s) == \A k \in 1..(Len(s) - 1) : s[k] < s[k + 1]

\* Entity e has the presence bit of type ty.
HoldsBit(e, ty) ==
  ty \in Registered /\ InRange(map, e) /\ bitmasks[ty] \subseteq MaskOf(map, e)

\* The queries the builder chains produce.
BuiltQueries ==
  {Build(QueryNew, chain, 1).val :
     chain \in {c \in Chains : Build(QueryNew, c, 1).tag = "Ok"}}

\* The slots whose mask m satisfies (m & (I | E)) == I.
Selected(I, E) == {i \in Slots : MaskOf(map, i) \cap (I \cup E) = I}

\* C1: for every table state and every query built by with_component /
\* without_component calls (include mask I, exclude mask E), run() returns
\* the slots i with (mask[i] & (I | E)) == I, each once, no other slot, in
\* strictly ascending order; and what a run() call returned is such a list.
C1_RunSelectsExactly ==
  /\ \A q \in BuiltQueries :
       /\ IsAscending(run(q))
       /\ Range(run(q)) = Selected(q.map, q.exclude_map)
  /\ (op.name = "query_run" /\ ret.tag = "Ok") =>
       /\ IsAscending(ret.val)
       /\ \E q \in BuiltQueries : Range(ret.val) = Selected(q.map, q.exclude_map)

\* A run() returned slot 1 and not the populated slot 0.
C1_Witness ==
  /\ op.name = "query_run"
  /\ ret.tag = "Ok"
  /\ ret.val = <<1>>
  /\ Len(map) = 2
  /\ MaskOf(map, 0) # {}

\* C2: when delete_entity(i) succeeded on an entity holding a component and
\* no slot below i has mask 0, the create_entity call that follows returns
\* i and leaves the length of the mask vector and of every column unchanged.
C2_SlotReuse ==
  [][(/\ op.name = "delete_entity" /\ ret.tag = "Ok" /\ op.entity # NoEntity
      /\ op'.name = "create_entity"
      /\ \A j \in 0..(op.entity - 1) : MaskOf(map, j) # {})
     => (/\ ret'.tag = "Ok"
         /\ ret'.val = op.entity
         /\ inserting_into_index' = op.entity
         /\ Len(map') = Len(map)
         /\ DOMAIN components' = DOMAIN components
         /\ \A t \in DOMAIN components :
              /\ components'[t].len = components[t].len
              /\ Len(components'[t].filled) = Len(components[t].filled))]_vars

\* create_entity gave slot 1 back right after delete_entity(1), with slot 0
\* populated and a column registered.
C2_Witness ==
  /\ op = [name |-> "create_entity", entity |-> 1]
  /\ ret.tag = "Ok"
  /\ ret.val = 1
  /\ Len(map) = 2
  /\ MaskOf(map, 0) # {}
  /\ components # EmptyMap

\* C3: create_entity / reserve_entity never returns an id an earlier call
\* returned unless delete_entity was called on it in between; in particular
\* two consecutive create_entity calls return distinct ids.
C3_ConsecutiveCreateDistinct ==
  [][(op.name = "create_entity" /\ op'.name = "create_entity")
     => ret'.val # ret.val]_vars

\* C4: in every reachable state every registered column is as long as the
\* mask vector (and so as every other column).
C4_ColumnsAligned ==
  \A t \in DOMAIN components : components[t].len = Len(map)

\* C5: the k-th type registered (k = 0, 1, ...) has the mask with only bit k
\* set, in every later state, and get_bitmask is None for a type that was
\* never registered.
C5_RegistrationBitOrder ==
  /\ \A k \in 1..Len(regOrder) : get_bitmask(regOrder[k]) = Some({k - 1})
  /\ \A ty \in Types \ Range(regOrder) : get_bitmask(ty) = None

\* Two types are registered, the second after an entity got a component of
\* the first.
C5_Witness ==
  /\ Len(regOrder) = 2
  /\ bitmasks[regOrder[2]] = {1}
  /\ components[regOrder[2]].len < Len(map)
  /\ \E e \in Slots : HoldsBit(e, regOrder[1])

\* C6: for a registered type T and an entity e whose T bit is set,
\* get_component<T>(e) returns the value last written to (e, T), the bits
\* the cell of e in column T was given.
C6_ReadsBackWritten ==
  Running =>
    \A e \in Slots, ty \in Registered :
      HoldsBit(e, ty) =>
        get_component(e, ty) = {Ok(CellAt(components[ty], e).val)}

C8_BitImpliesFilled ==
  Running =>
    \A i \in Slots, ty \in Registered :
      HoldsBit(i, ty) =>
        /\ i < Len(components[ty].filled)
        /\ components[ty].filled[i + 1]

\* The types a chain passes to with_component / to without_component.
WithTypes(chain) == {chain[k].ty : k \in {j \in 1..Len(chain) : chain[j].with}}
WithoutTypes(chain) ==
  {chain[k].ty : k \in {j \in 1..Len(chain) : ~chain[j].with}}

\* C9: whatever types were passed to with_component and without_component
\* (the same type may be passed to both), run() returns slot i if and only
\* if i has the bit of every with-type and of no without-type.
C9_WithAndWithout ==
  \A chain \in Chains :
    LET b == Build(QueryNew, chain, 1) IN
    b.tag = "Ok" =>
      Range(run(b.val)) =
        {i \in Slots : /\ \A ty \in WithTypes(chain) : HoldsBit(i, ty)
                       /\ \A ty \in WithoutTypes(chain) : ~HoldsBit(i, ty)}

\* C10: delete_component / delete_component_erased of a registered type on
\* an existing entity clears exactly the bit of the type in the mask of the
\* entity: the other bits, the other masks, the columns and the staging
\* cursor are unchanged, and no destructor runs.
C10_DeleteComponentFrame ==
  [][op'.name = "delete_component" =>
       \A e \in Slots, ty \in Registered :
         DeleteComponent(e, ty) =>
           /\ ret' = Ok(Unit)
           /\ MaskOf(map', e) = MaskOf(map, e) \ bitmasks[ty]
           /\ Len(map') = Len(map)
           /\ \A j \in Slots \ {e} : MaskOf(map', j) = MaskOf(map, j)
           /\ components' = components
           /\ bitmasks' = bitmasks
           /\ inserting_into_index' = inserting_into_index
           /\ drops' = <<>>]_vars

\* delete_component cleared a bit: the entity keeps its other bit and the
\* column keeps the value.
C10_Witness ==
  /\ op.name = "delete_component"
  /\ ret.tag = "Ok"
  /\ drops = <<>>
  /\ Cardinality(Registered) = 2
  /\ \E e \in Slots, ty \in Registered :
       /\ ~HoldsBit(e, ty)
       /\ MaskOf(map, e) # {}
       /\ CellAt(components[ty], e).st = "live"
       /\ CellAt(components[ty], e).val # 0
       /\ e < Len(components[ty].filled) /\ components[ty].filled[e + 1]

\* C11: delete_entity(e) on an existing slot sets mask[e] to 0 and changes
\* nothing else (no other mask, no column, not the number of slots, no
\* destructor call); on an id outside the slots it returns
\* EntityDoesNotExist and changes nothing.
C11_DeleteEntityFrame ==
  [][op'.name = "delete_entity" =>
       \A e \in Entities :
         DeleteEntity(e) =>
           /\ components' = components
           /\ bitmasks' = bitmasks
           /\ inserting_into_index' = inserting_into_index
           /\ drops' = <<>>
           /\ Len(map') = Len(map)
           /\ \A j \in Slots \ {e} : MaskOf(map', j) = MaskOf(map, j)
           /\ IF e \in Slots
              THEN ret' = Ok(Unit) /\ MaskOf(map', e) = {}
              ELSE ret' = Err("EntityDoesNotExist") /\ map' = map]_vars

\* delete_entity zeroed the mask of an entity that held two components; the
\* columns still hold its values and the other entity keeps its mask.
C11_Witness ==
  /\ op.name = "delete_entity"
  /\ op.entity # NoEntity
  /\ ret = Ok(Unit)
  /\ MaskOf(map, op.entity) = {}
  /\ Len(map) = 2
  /\ Cardinality(Registered) = 2
  /\ \A ty \in Registered :
       /\ CellAt(components[ty], op.entity).st = "live"
       /\ CellAt(components[ty], op.entity).val # 0
       /\ components[ty].filled = <<TRUE, TRUE>>
  /\ \E j \in Slots : MaskOf(map, j) = {0, 1}

C13_NeverCreatedIdIsError ==
  \A e \in Entities \ Slots, ty \in Registered, val \in Values :
    /\ has_component(map, e, ty).tag = "Err"
    /\ \A r \in get_component(e, ty) : r.tag = "Err"
    /\ \A o \in {add_component(components, map, e, ty, val),
                 add_component_erased(components, map, e, ty, val),
                 delete_component(components, map, e, ty)} :
         /\ o.ret.tag = "Err"
         /\ o.components = components
         /\ o.map = map

\* C14: add_component, add_component_erased and add_components made right
\* after delete_entity removed an entity leave the mask of that entity at 0:
\* a call that targets the deleted entity fails and sets no bit.
C14_NoAddToDeletedEntity ==
  [][(/\ op.name = "delete_entity" /\ ret.tag = "Ok" /\ op.entity # NoEntity
      /\ op'.name \in {"add_component", "add_components"})
     => MaskOf(map', op.entity) = {}]_vars

\* C15: delete_component / delete_component_erased called with a type that
\* was never registered return an error.
C15_DeleteUnregisteredIsError ==
  \A e \in Slots, ty \in Types \ Registered :
    delete_component(components, map, e, ty).ret.tag = "Err"

\* C16: with_components(bundle) and add_components(e, bundle) either
\* succeed or, when they return an error, leave every mask and every column
\* as before the call.
C16_BundleAllOrNothing ==
  \A bundle \in Bundles, e \in Slots :
    \A o \in {with_components(components, map, bundle),
              add_components(components, map, e, bundle)} :
      o.ret.tag = "Err" => (o.components = components /\ o.map = map)

\* The bits of the types of a bundle.
BundleBits(bundle) == UNION {bitmasks[bundle[k].ty] : k \in 1..Len(bundle)}

\* C17: the staging cursor is the slot create_entity returned last and only
\* create_entity moves it; with_component and with_components change no
\* mask but that of the cursor slot, whose mask gains exactly the bits of
\* the types written, and they do not change the number of slots.
C17_WritesOnlyStagedSlot ==
  [][/\ inserting_into_index' # inserting_into_index
          => op'.name = "create_entity"
     /\ op'.name = "create_entity" => ret' = Ok(inserting_into_index')
     /\ op'.name \in {"with_component", "with_components"} =>
          /\ Len(map') = Len(map)
          /\ \A j \in Slots \ {inserting_into_index} :
               MaskOf(map', j) = MaskOf(map, j)
          /\ ret'.tag = "Ok" =>
               /\ \A ty \in Types, val \in Values :
                    WithComponent(ty, val) =>
                      /\ inserting_into_index \in Slots
                      /\ MaskOf(map', inserting_into_index) =
                           MaskOf(map, inserting_into_index) \cup bitmasks[ty]
               /\ \A bundle \in Bundles :
                    WithComponents(bundle) =>
                      IF bundle = <<>> THEN map' = map
                      ELSE /\ inserting_into_index \in Slots
                           /\ MaskOf(map', inserting_into_index) =
                                MaskOf(map, inserting_into_index)
                                  \cup BundleBits(bundle)]_vars

\* with_components filled slot 1, the slot being populated, while slot 0
\* holds one component only.
C17_Witness ==
  /\ op.name = "with_components"
  /\ ret.tag = "Ok"
  /\ inserting_into_index = 1
  /\ Len(map) = 2
  /\ MaskOf(map, 1) = {0, 1}
  /\ MaskOf(map, 0) = {0}
  /\ \A ty \in Registered : CellAt(components[ty], 1).st = "live"


\* Every call made on vec so far was a push or a push_erased.
OnlyPushes ==
  \A k \in 1..Len(hist) : hist[k].name \in {"push", "push_erased"}

\* C18: after push or push_erased of v0..v(n-1) in that order onto a new
\* ErasedVec of element type T, through any number of capacity growths,
\* len() is n and get::<T>(i) yields v_i for every i in 0..n-1.
C18_PushRoundTrip ==
  (Running /\ OnlyPushes) =>
    /\ vec.len = Len(hist)
    /\ \A i \in 0..(Len(hist) - 1) : get(vec, vec.ty, i) = {hist[i + 1].val}

\* Three values pushed through both entry points and two growths beyond the
\* first allocation, then the second one read back.
C18_Witness ==
  /\ Len(hist) = 3
  /\ OnlyPushes
  /\ hist[1].name = "push" /\ hist[2].name = "push_erased"
  /\ hist[1].val = 1 /\ hist[2].val = 2 /\ hist[3].val = 1
  /\ vec.ty = "String"
  /\ vec.cap = 4
  /\ op.name = "get"
  /\ ret = Ok(2)


\* C19: after pad() the new last slot reads as all-zero bytes through
\* get_unchecked and its filled flag is false; after a set or set_erased on
\* that index that follows, the filled flag of the slot is true, get yields
\* the value set, and len() is what it was after the pad.
C19_PadThenSet ==
  LET n == Len(hist) IN
  (Running /\ n >= 1) =>
    /\ hist[n].name = "pad" =>
         /\ vec.len = hist[n].index + 1
         /\ ~vec.filled[vec.len]
         /\ get_unchecked(vec, "bytes", vec.len - 1) = {0}
    /\ ( /\ n >= 2
         /\ hist[n - 1].name = "pad"
         /\ hist[n].name \in {"set", "set_erased"}
         /\ hist[n].index = hist[n - 1].index ) =>
         /\ vec.len = hist[n].index + 1
         /\ vec.filled[hist[n].index + 1]
         /\ get(vec, vec.ty, hist[n].index) = {hist[n].val}


\* The calls that take a value together with its type descriptor.
TypedCalls ==
  {"push", "push_erased", "insert", "insert_erased", "set", "set_erased"}

\* C20: push, push_erased, insert, insert_erased, set and set_erased called
\* with a type descriptor other than the vector's own always fail, whatever
\* the other type, the index and the value are, and leave the length, the
\* stored elements and the filled flags of the vector as they were.
C20_TypeGuard ==
  [][( /\ Len(hist') = Len(hist) + 1
       /\ hist'[Len(hist')].name \in TypedCalls
       /\ hist'[Len(hist')].ty # vec.ty ) =>
       /\ ret' = Panic
       /\ vec'.ty = vec.ty
       /\ vec'.len = vec.len
       /\ vec'.filled = vec.filled
       /\ \A i \in 0..(vec.len - 1) :
                 CellAt(vec', i) = CellAt(vec, i)]_vars

\* A push_erased of the wrong type onto a full vector of two elements: the
\* buffer grew before the assertion failed, the elements stayed.
C20_Witness ==
  /\ Len(hist) = 3
  /\ hist[3].name = "push_erased"
  /\ hist[3].ty # vec.ty
  /\ ret = Panic
  /\ vec.len = 2
  /\ vec.cap = 4
  /\ vec.filled = <<TRUE, TRUE>>
  /\ vec.cells[1] = LiveCell(hist[1].val)
  /\ vec.cells[2] = LiveCell(hist[2].val)


\* The call logged last by the step, and the vector as it was before it.
LastCall == hist'[Len(hist')]

\* C21: insert / insert_erased of v at index <= len on a vector holding
\* e0..e(n-1) yields e0..e(index-1), v, e(index)..e(n-1) with len n+1 and
\* the filled flags shifted the same way; with index > len the call fails
\* and the stored elements and the length are unchanged.
C21_InsertShifts ==
  [][( /\ Len(hist') = Len(hist) + 1
       /\ LastCall.name \in {"insert", "insert_erased"}
       /\ LastCall.ty = vec.ty ) =>
       IF LastCall.index <= vec.len
       THEN /\ ret' = Ok(Unit)
            /\ vec'.len = vec.len + 1
            /\ \A i \in 0..(vec.len - 1) :
                 LET j == IF i < LastCall.index THEN i ELSE i + 1 IN
                 /\ CellAt(vec', j) = CellAt(vec, i)
                 /\ vec'.filled[j + 1] = vec.filled[i + 1]
            /\ get(vec', vec.ty, LastCall.index) = {LastCall.val}
            /\ vec'.filled[LastCall.index + 1]
       ELSE /\ ret' = Panic
            /\ vec'.len = vec.len
            /\ vec'.filled = vec.filled
            /\ \A i \in 0..(vec.len - 1) :
                 CellAt(vec', i) = CellAt(vec, i)]_vars


\* The destructor calls in d made on slot index.
DropsOn(d, index) == {k \in 1..Len(d) : d[k].index = index}

\* C22: when an ErasedVec is destroyed, the destructor of its element type
\* is invoked exactly once on each slot whose filled flag is true and never
\* on a slot whose filled flag is false.
C22_DropFilledOnly ==
  [][(op'.name = "drop" /\ op.name # "drop") =>
       /\ \A k \in 1..Len(drops') :
            drops'[k].ty = vec.ty /\ drops'[k].index \in 0..(vec.len - 1)
       /\ \A i \in 0..(vec.len - 1) :
            Cardinality(DropsOn(drops', i)) =
              IF vec.filled[i + 1] THEN 1 ELSE 0]_vars

\* A vector dropped holding a padded slot that was never overwritten and a
\* pushed value: the destructor ran on the pushed value only.
C22_Witness ==
  /\ op.name = "drop"
  /\ ret = Ok(Unit)
  /\ vec.len = 2
  /\ vec.filled = <<FALSE, TRUE>>
  /\ hist[1].name = "pad"
  /\ Len(drops) = 1
  /\ drops[1].index = 1
  /\ drops[1].st = "live"


\* Every call made on vec so far appended an element of its own type.
OnlyAppends ==
  \A k \in 1..Len(hist) :
    hist[k].name \in {"push", "push_erased", "pad"} /\ hist[k].ty = vec.ty

\* C23: an ErasedVec created for a zero-size type never allocates or grows,
\* whatever number of push, push_erased or pad calls is made on it: every
\* such call succeeds, len() counts the elements added, and the capacity
\* stays at usize::MAX.
C23_ZstNeverAllocates ==
  (vec.ty = "Zst" /\ OnlyAppends) =>
    /\ op.name \in {"push", "push_erased", "pad"} => ret = Ok(Unit)
    /\ vec.len = Len(hist)
    /\ Len(vec.filled) = Len(hist)
    /\ vec.cap = UsizeMax
    /\ vec.cells = <<>>

\* A zero-size vector after a push, a push_erased and a pad.
C23_Witness ==
  /\ vec.ty = "Zst"
  /\ Len(hist) = 3
  /\ hist[1].name = "push"
  /\ hist[2].name = "push_erased"
  /\ hist[3].name = "pad"
  /\ op.name = "pad"
  /\ ret = Ok(Unit)
  /\ vec.len = 3
  /\ vec.filled = <<TRUE, TRUE, FALSE>>


\* C24: CommandBuffer::run applies the recorded commands to the World in the
\* order they were recorded: the masks and the component values after it are
\* those that calling reserve_entity, add_component_erased,
\* delete_component_erased and delete_entity directly, in that order and with
\* the recorded values, gives.
C24_RunEqualsDirect ==
  [][(op'.name = "run" /\ ret'.tag = "Ok") =>
       LET s == RunFromCommand(components, map, inserting_into_index,
                               commands, 1, <<>>)
       IN  /\ s.ret.tag = "Ok"
           /\ map' = s.map
           /\ \A ty \in Types, e \in Entities :
                (InRange(s.map, e) /\ ty \in DOMAIN bitmasks
                   /\ BitAnd(MaskOf(s.map, e), bitmasks[ty]) # {}) =>
                  get(components'[ty], ty, e) = get(s.components[ty], ty, e)]_vars


\* C25: CommandBuffer::clear removes all commands from the buffer: after
\* clear(), a run(world) that follows applies no command and leaves the
\* world unchanged.
C25_ClearEmptiesBuffer ==
  [][/\ op'.name = "clear" => commands' = <<>>
     /\ (op.name = "clear" /\ op'.name = "run") =>
          /\ ret' = Ok(Unit)
          /\ UNCHANGED <<components, map, inserting_into_index>>]_vars


\* C26: Query::with_component::<T> ORs bit(T) into the include mask only and
\* Query::without_component::<T> ORs bit(T) into the exclude mask only; when
\* T was never registered the call returns an error and hands back no
\* changed query.
C26_QueryMaskUpdates ==
  \A q \in BuiltQueries, ty \in Types :
    LET w == query_with_component(q, ty)
        wo == query_without_component(q, ty)
    IN  IF ty \in Registered
        THEN /\ w.tag = "Ok"
             /\ w.val.map = q.map \cup bitmasks[ty]
             /\ w.val.exclude_map = q.exclude_map
             /\ wo.tag = "Ok"
             /\ wo.val.exclude_map = q.exclude_map \cup bitmasks[ty]
             /\ wo.val.map = q.map
        ELSE /\ w = Err("ComponentNotRegistered")
             /\ wo = Err("ComponentNotRegistered")

\* With u32 registered and String not: a query holds the u32 bit in one mask
\* only, and a chain naming String ended in the error.
C26_Witness ==
  /\ Registered = {"u32"}
  /\ op.name = "query_run"
  /\ ret = Err("ComponentNotRegistered")
  /\ \E q \in BuiltQueries : q.map = {} /\ q.exclude_map = bitmasks["u32"]
  /\ \E q \in BuiltQueries : q.map = bitmasks["u32"] /\ q.exclude_map = {}


\* C27: Bundle::put on a tuple of arity n, when every callback call
\* succeeds, calls the callback exactly n times, once per element in declared
\* order, each time with the descriptor types() lists at the same position;
\* LENGTH is n (0 for the empty tuple, for which the callback is never
\* called).
C27_PutInDeclaredOrder ==
  [][\A bundle \in Bundles :
       (spawn_entity(bundle)
          \/ \E entity \in Entities : insert_components(entity, bundle)) =>
         LET calls == commands'[Len(commands')].components IN
         /\ LENGTH(bundle) = Len(bundle)
         /\ Len(calls) = LENGTH(bundle)
         /\ Len(types(bundle)) = LENGTH(bundle)
         /\ \A k \in 1..Len(bundle) :
              /\ calls[k].ty = types(bundle)[k]
              /\ calls[k].ty = bundle[k].ty
              /\ calls[k].val = bundle[k].val]_vars

\* The empty tuple recorded, then a (u32, String) tuple: no call for the
\* first, two calls in declared order for the second.
C27_Witness ==
  /\ Len(commands) = 2
  /\ op.name = "spawn_entity"
  /\ commands[1].kind = "InsertOrSpawn"
  /\ commands[1].components = <<>>
  /\ Len(commands[2].components) = 2
  /\ commands[2].components[1].ty = "u32"
  /\ commands[2].components[2].ty = "String"


\* The slots whose mask is 0.
FreeSlots == {i \in Slots : MaskOf(map, i) = {}}

\* C28: when no slot has mask 0, create_entity appends exactly one padded
\* slot, not marked filled, to every registered column and one zero mask, and
\* returns the previous slot count; when some slot has mask 0 it returns the
\* lowest such index and changes no column, no mask and no slot count, only
\* the staging cursor.
C28_CreateEntityEffect ==
  [][op'.name = "create_entity" =>
       IF FreeSlots # {}
       THEN /\ ret' = Ok(CHOOSE i \in FreeSlots : \A j \in FreeSlots : i <= j)
            /\ inserting_into_index' = ret'.val
            /\ UNCHANGED <<components, map, bitmasks>>
       ELSE /\ ret' = Ok(Len(map))
            /\ inserting_into_index' = Len(map)
            /\ map' = Append(map, {})
            /\ UNCHANGED bitmasks
            /\ DOMAIN components' = DOMAIN components
            /\ \A ty \in DOMAIN components :
                 LET old == components[ty]
                     new == components'[ty]
                 IN  /\ new.len = old.len + 1
                     /\ Len(new.filled) = new.len
                     /\ ~new.filled[new.len]
                     /\ get_unchecked(new, "bytes", old.len) = {0}
                     /\ \A i \in 0..(old.len - 1) :
                          /\ CellAt(new, i) = CellAt(old, i)
                          /\ new.filled[i + 1] = old.filled[i + 1]]_vars

\* A second slot appended below a populated first one, with both types
\* registered: each column ends in a slot that is not marked filled.
C28_Witness ==
  /\ op.name = "create_entity"
  /\ ret = Ok(1)
  /\ Len(map) = 2
  /\ Registered = Types
  /\ MaskOf(map, 0) = bitmasks["u32"] \cup bitmasks["String"]
  /\ MaskOf(map, 1) = {}
  /\ \A ty \in Types :
       /\ components[ty].len = 2
       /\ components[ty].filled[1]
       /\ ~components[ty].filled[2]


\* C29: add_component_erased and the closure of add_components invoke the
\* destructor on the value stored in the target slot exactly when the bit of
\* that type was set in the entity's mask before the call, and never when it
\* was clear; the bit is set after the call in both cases.
C29_DestructiveOverwrite ==
  \A entity \in Slots, ty \in Registered, val \in Values :
    LET had == bitmasks[ty] \subseteq MaskOf(map, entity)
        o == add_component_erased(components, map, entity, ty, val)
    IN  /\ ~had => o.drops = <<>>
        /\ o.ret.tag = "Ok" =>
             /\ bitmasks[ty] \subseteq MaskOf(o.map, entity)
             /\ had => /\ Len(o.drops) = 1
                       /\ o.drops[1].ty = ty
                       /\ o.drops[1].index = entity

\* An add_components call that overwrote a String the entity held: the
\* destructor ran once, on the live old value.
C29_Witness ==
  /\ op.name = "add_components"
  /\ ret = Ok(Unit)
  /\ Len(drops) = 1
  /\ drops[1].ty = "String"
  /\ drops[1].st = "live"
  /\ HoldsBit(drops[1].index, "String")


\* The slot of entity e in the column of ty holds a live value.
HoldsLive(e, ty) ==
  /\ ty \in DOMAIN components
  /\ e < components[ty].len
  /\ components[ty].filled[e + 1]
  /\ CellAt(components[ty], e).st = "live"

\* C30: a component value whose presence bit was cleared by delete_component
\* or delete_entity is destructed when the same slot is next overwritten with
\* a value of the same type, so that after the overwrite the old value has
\* been destructed exactly once and is not leaked.
C30_LazyDestruct ==
  [][\A ty \in Registered, e \in Slots :
       ( /\ NeedsDrop(ty)
         /\ HoldsLive(e, ty)
         /\ ~HoldsBit(e, ty)
         /\ op'.name \in {"with_component", "with_components",
                          "add_component", "add_components"}
         /\ ret'.tag = "Ok"
         /\ components'[ty] # components[ty]
         /\ bitmasks[ty] \subseteq MaskOf(map', e) ) =>
         Cardinality({k \in 1..Len(drops') :
                        /\ drops'[k].ty = ty
                        /\ drops'[k].index = e
                        /\ drops'[k].st = "live"}) = 1]_vars


\* C31: for an element type of non-zero size the capacity is 0 until the
\* first growth, a call changes it only from 0 to 1 or to its double, and
\* len <= capacity holds before and after every call.
C31_GrowthPolicy ==
  [][SizeOf(vec.ty) # 0 =>
       /\ hist = <<>> => vec.cap = 0
       /\ vec.len <= vec.cap
       /\ vec'.len <= vec'.cap
       /\ \/ vec'.cap = vec.cap
          \/ vec.cap = 0 /\ vec'.cap = 1
          \/ vec.cap # 0 /\ vec'.cap = 2 * vec.cap]_vars

\* Three elements stored after the growths 0 -> 1 -> 2 -> 4.
C31_Witness ==
  /\ SizeOf(vec.ty) # 0
  /\ Running
  /\ vec.len = 3
  /\ vec.cap = 4


\* The call that has just been made on the raw buffer.
RawCalled(names) ==
  /\ Len(hist') = Len(hist) + 1
  /\ LastCall.name \in names

C38_ZstBox ==
  [][(RawCalled({"ErasedBox::new", "from_raw_parts"}) /\ LastCall.ty = "Zst")
       => ret'.tag = "Ok" /\ vec'.cells = <<>>]_vars


\* C33: get, get_mut, get_unchecked and get_mut_unchecked reject every index
\* equal to or above len, so that no read reaches past the stored elements.
C33_ReadsBelowLen ==
  VecLive =>
    \A index \in VecIndices, ty \in VecTypes :
      index >= vec.len =>
        /\ get(vec, ty, index) = {}
        /\ get_unchecked(vec, ty, index) = {}


\* C34: no destructor call of a table operation runs on a value whose
\* destructor has already run.
C34_NoDoubleDrop ==
  \A k \in 1..Len(drops) : drops[k].st # "dropped"


\* C35: the slot whose id create_entity returns has mask 0 when the call
\* returns, and has_component answers false on it for every registered type.
C35_CreatedSlotIsFree ==
  [][op'.name = "create_entity" =>
       /\ ret'.tag = "Ok"
       /\ InRange(map', ret'.val)
       /\ MaskOf(map', ret'.val) = {}
       /\ \A ty \in Registered :
            has_component(map', ret'.val, ty) = Ok(FALSE)]_vars

\* create_entity returns slot 1, freed by delete_entity, while slot 0 still
\* holds a component of each registered type.
C35_Witness ==
  /\ op.name = "create_entity"
  /\ op.entity = 1
  /\ ret = Ok(1)
  /\ Registered = Types
  /\ MaskOf(map, 0) = bitmasks["u32"] \cup bitmasks["String"]


\* C36: run() never returns a handle for a slot whose mask is 0, whatever
\* the include and exclude masks of the query, an empty include mask included.
C36_RunSkipsFreeSlots ==
  (op.name = "query_run" /\ ret.tag = "Ok") =>
    \A i \in Range(ret.val) : MaskOf(map, i) # {}


\* C37: after register_component calls on pairwise distinct types, more
\* than 128 of them included, the mask of every registered type has exactly
\* one bit and no two registered types share a bit.
C37_MasksDistinct ==
  /\ \A ty \in Registered : Cardinality(bitmasks[ty]) = 1
  /\ \A a, b \in Registered : a # b => bitmasks[a] \cap bitmasks[b] = {}


\* C39: a command is applied at most once: a run that directly follows a
\* run, with nothing recorded in between, leaves the world as it was; in
\* particular it changes no entity mask and adds no slot.
C39_RunAppliesOnce ==
  [][(op.name = "run" /\ op'.name = "run" /\ ret'.tag = "Ok") =>
       map' = map]_vars

=============================================================================
